---- MODULE Spec2Model ----
(***************************************************************************)
(* gitmoji-commit-mcp: the type registry (types.ts), the message codec     *)
(* (utils.ts: formatCommitMessage, validateCommitMessage,                  *)
(* parseCommitMessage, wrapText), the change classifier (git.ts) and the   *)
(* tool dispatcher (index.ts).                                             *)
(*                                                                         *)
(* A JavaScript string is a sequence of UTF-16 code units.  An ASCII unit  *)
(* is written as itself ("a", " ", "\n"); any other unit is written by its *)
(* code point, "u2728".  The glyph of a registry entry is the sequence of  *)
(* code units of its emoji (a surrogate pair for a glyph beyond U+FFFF).   *)
(***************************************************************************)
EXTENDS Integers, Sequences, FiniteSets, TLC

VARIABLES
  registry,   \* the module-level table COMMIT_TYPES of types.ts
  cpc,        \* codec: which of format / validate / parse have been applied
  fields,     \* codec: the CommitParams given to formatCommitMessage
  message,    \* codec: the message under validation and parsing
  formatted,  \* codec: what formatCommitMessage returned or threw
  validation, \* codec: the ValidationResult of message
  parsed,     \* codec: what parseCommitMessage returned for message
  wpc,        \* wrapText: "off", "call" before and "done" after the call
  wtext,      \* wrapText: the text argument
  wwidth,     \* wrapText: the width argument
  wout,       \* wrapText: the string returned
  spc,        \* suggestCommitType: "off", "call" before and "done" after the call
  stats,      \* suggestCommitType: the DiffStats of the staged changes
  suggestion, \* suggestCommitType: what it returned or threw
  repo,       \* the git repository: the staged changes and the commits made
  inv         \* dispatcher: the tool calls in progress, one per slot

codecVars == <<cpc, fields, message, formatted, validation, parsed>>

wrapVars == <<wpc, wtext, wwidth, wout>>

suggestVars == <<spc, stats, suggestion>>

serverVars == <<repo, inv>>

vars == <<registry, codecVars, wrapVars, suggestVars, serverVars>>

(***************************************************************************)
(* Strings                                                                 *)
(***************************************************************************)

\* the value of a property that is not there (scope?, description?)
Undefined == <<"<undefined>">>

\* JavaScript truthiness of an optional string: neither undefined nor ''
Truthy(s) == s # Undefined /\ s # <<>>

\* what a template literal `${x}` prints for x
Show(s) == IF s = Undefined THEN <<"u", "n", "d", "e", "f", "i", "n", "e", "d">> ELSE s

LowerLetters ==
  <<"a", "b", "c", "d", "e", "f", "g", "h", "i", "j", "k", "l", "m",
    "n", "o", "p", "q", "r", "s", "t", "u", "v", "w", "x", "y", "z">>

UpperLetters ==
  <<"A", "B", "C", "D", "E", "F", "G", "H", "I", "J", "K", "L", "M",
    "N", "O", "P", "Q", "R", "S", "T", "U", "V", "W", "X", "Y", "Z">>

Range(s) == {s[i] : i \in DOMAIN s}

\* String.prototype.toUpperCase / toLowerCase on one code unit
ToUpperCase(c) ==
  IF c \in Range(LowerLetters)
  THEN UpperLetters[CHOOSE i \in DOMAIN LowerLetters : LowerLetters[i] = c]
  ELSE c

ToLowerCase(c) ==
  IF c \in Range(UpperLetters)
  THEN LowerLetters[CHOOSE i \in DOMAIN UpperLetters : UpperLetters[i] = c]
  ELSE c

LowerStr(s) == [i \in DOMAIN s |-> ToLowerCase(s[i])]

\* the regular-expression class \s, over the code units of the model
IsSpace(c) == c \in {" ", "\t", "\n", "\r", "u00A0"}

\* the code units the regular-expression dot does not match
IsLineTerminator(c) == c \in {"\n", "\r"}

\* String.prototype.substring(from) with a 0-based from
SubstringFrom(s, from) == SubSeq(s, from + 1, Len(s))

StartsWith(s, p) == Len(p) <= Len(s) /\ SubSeq(s, 1, Len(p)) = p

EndsWith(s, p) == Len(p) <= Len(s) /\ SubSeq(s, Len(s) - Len(p) + 1, Len(s)) = p

\* String.prototype.includes
Includes(s, p) == \E i \in 0..(Len(s) - Len(p)) : SubSeq(s, i + 1, i + Len(p)) = p

\* the length of the longest prefix of s whose units all satisfy P
RECURSIVE RunLen(_, _, _)
RunLen(s, P(_), i) ==
  IF i <= Len(s) /\ P(s[i]) THEN 1 + RunLen(s, P, i + 1) ELSE 0

\* a trim that strips nothing
Trim_Identity(s) == s

\* String.prototype.trim
Trim(s) ==
  IF \A i \in DOMAIN s : IsSpace(s[i]) THEN <<>>
  ELSE LET a == CHOOSE i \in DOMAIN s : ~IsSpace(s[i]) /\ \A j \in 1..(i - 1) : IsSpace(s[j])
           b == CHOOSE i \in DOMAIN s : ~IsSpace(s[i]) /\ \A j \in (i + 1)..Len(s) : IsSpace(s[j])
       IN SubSeq(s, a, b)

\* String.prototype.split(sep) for a one-unit separator
RECURSIVE Split(_, _)
Split(s, sep) ==
  IF \A i \in DOMAIN s : s[i] # sep THEN <<s>>
  ELSE LET k == CHOOSE i \in DOMAIN s : s[i] = sep /\ \A j \in 1..(i - 1) : s[j] # sep
       IN <<SubSeq(s, 1, k - 1)>> \o Split(SubSeq(s, k + 1, Len(s)), sep)

\* Array.prototype.join
RECURSIVE Join(_, _)
Join(parts, sep) ==
  IF parts = <<>> THEN <<>>
  ELSE IF Len(parts) = 1 THEN parts[1]
  ELSE parts[1] \o sep \o Join(Tail(parts), sep)

(***************************************************************************)
(* Type registry (types.ts)                                                *)
(***************************************************************************)

PrimaryTypes ==
  {<<"f", "e", "a", "t">>,
   <<"f", "i", "x">>,
   <<"d", "o", "c", "s">>,
   <<"s", "t", "y", "l", "e">>,
   <<"r", "e", "f", "a", "c", "t", "o", "r">>,
   <<"p", "e", "r", "f">>,
   <<"t", "e", "s", "t">>,
   <<"b", "u", "i", "l", "d">>,
   <<"c", "i">>,
   <<"c", "h", "o", "r", "e">>,
   <<"r", "e", "v", "e", "r", "t">>}

ExtendedTypes ==
  {<<"s", "e", "c", "u", "r", "i", "t", "y">>,
   <<"d", "e", "p", "r", "e", "c", "a", "t", "e">>,
   <<"b", "r", "e", "a", "k", "i", "n", "g">>,
   <<"i", "1", "8", "n">>,
   <<"a", "1", "1", "y">>,
   <<"d", "e", "p", "s">>}

CommitType == PrimaryTypes \union ExtendedTypes

PrimaryTable ==
  <<"f", "e", "a", "t">> :>
    [emoji |-> <<"u2728">>,
     title |-> "Features",
     description |-> "A new feature"] @@
  <<"f", "i", "x">> :>
    [emoji |-> <<"uD83D", "uDC1B">>,
     title |-> "Bug Fixes",
     description |-> "A bug fix"] @@
  <<"d", "o", "c", "s">> :>
    [emoji |-> <<"uD83D", "uDCDD">>,
     title |-> "Documentation",
     description |-> "Documentation only changes"] @@
  <<"s", "t", "y", "l", "e">> :>
    [emoji |-> <<"uD83C", "uDFA8">>,
     title |-> "Styles",
     description |-> "Changes that do not affect code meaning (whitespace, formatting, missing semi-colons, etc.)"] @@
  <<"r", "e", "f", "a", "c", "t", "o", "r">> :>
    [emoji |-> <<"u267B", "uFE0F">>,
     title |-> "Code Refactoring",
     description |-> "A code change that neither fixes a bug nor adds a feature"] @@
  <<"p", "e", "r", "f">> :>
    [emoji |-> <<"u26A1">>,
     title |-> "Performance Improvements",
     description |-> "A code change that improves performance"] @@
  <<"t", "e", "s", "t">> :>
    [emoji |-> <<"uD83E", "uDDEA">>,
     title |-> "Tests",
     description |-> "Adding missing tests or correcting existing tests"] @@
  <<"b", "u", "i", "l", "d">> :>
    [emoji |-> <<"uD83D", "uDCE6">>,
     title |-> "Builds",
     description |-> "Changes that affect the build system or external dependencies (npm, maven, gradle, etc.)"] @@
  <<"c", "i">> :>
    [emoji |-> <<"uD83D", "uDC77">>,
     title |-> "Continuous Integration",
     description |-> "Changes to CI configuration files and scripts (GitHub Actions, GitLab CI, Jenkins, etc.)"] @@
  <<"c", "h", "o", "r", "e">> :>
    [emoji |-> <<"uD83D", "uDD27">>,
     title |-> "Chores",
     description |-> "Other changes that don't modify src or test files (maintenance tasks, config updates, etc.)"] @@
  <<"r", "e", "v", "e", "r", "t">> :>
    [emoji |-> <<"u23EA">>,
     title |-> "Reverts",
     description |-> "Reverts a previous commit"]

ExtendedTable ==
  <<"s", "e", "c", "u", "r", "i", "t", "y">> :>
    [emoji |-> <<"uD83D", "uDD12">>,
     title |-> "Security Fixes",
     description |-> "Security vulnerability fixes or improvements"] @@
  <<"d", "e", "p", "r", "e", "c", "a", "t", "e">> :>
    [emoji |-> <<"u26A0", "uFE0F">>,
     title |-> "Deprecations",
     description |-> "Mark features/APIs as deprecated"] @@
  <<"b", "r", "e", "a", "k", "i", "n", "g">> :>
    [emoji |-> <<"uD83D", "uDCA5">>,
     title |-> "Breaking Changes",
     description |-> "Changes that break backward compatibility"] @@
  <<"i", "1", "8", "n">> :>
    [emoji |-> <<"uD83C", "uDF10">>,
     title |-> "Internationalization",
     description |-> "Translations and localization changes"] @@
  <<"a", "1", "1", "y">> :>
    [emoji |-> <<"u267F">>,
     title |-> "Accessibility",
     description |-> "Accessibility improvements"] @@
  <<"d", "e", "p", "s">> :>
    [emoji |-> <<"u2B06", "uFE0F">>,
     title |-> "Dependencies",
     description |-> "Dependency updates (when not using automated tools)"]

\* a table that lost its extended entries
COMMIT_TYPES_PrimaryOnly == PrimaryTable

COMMIT_TYPES == PrimaryTable @@ ExtendedTable

\* properties every object literal inherits from Object.prototype: the
\* lookup COMMIT_TYPES[k] finds them although they are no entry of the table
ObjectPrototypeKeys ==
  {<<"c", "o", "n", "s", "t", "r", "u", "c", "t", "o", "r">>,
   <<"t", "o", "S", "t", "r", "i", "n", "g">>,
   <<"v", "a", "l", "u", "e", "O", "f">>,
   <<"_", "_", "p", "r", "o", "t", "o", "_", "_">>}

\* the truthiness of COMMIT_TYPES[type]
HasProperty(type) == type \in DOMAIN registry \/ type \in ObjectPrototypeKeys

\* COMMIT_TYPES[type].emoji
EmojiOf(type) == IF type \in DOMAIN registry THEN registry[type].emoji ELSE Undefined

(***************************************************************************)
(* Message codec (utils.ts)                                                *)
(***************************************************************************)

\* a call that returned v / a call that threw new Error(msg)
Returned(v) == [threw |-> FALSE, value |-> v]

Threw(msg) == [threw |-> TRUE, error |-> msg]

\* the text of a fixed piece of a message, kept as one fragment
Text(str) == <<str>>

\* a marker in another case
BreakingMarker_Lower == <<"B", "r", "e", "a", "k", "i", "n", "g", " ", "c", "h", "a", "n", "g", "e", ":">>

\* the literal 'BREAKING CHANGE:'
BreakingMarker == <<"B", "R", "E", "A", "K", "I", "N", "G", " ", "C", "H", "A", "N", "G", "E", ":">>

\* a first line with the breaking marker put before the scope
FirstLine_BangBeforeScope(params) ==
  Show(EmojiOf(params.type)) \o <<" ">> \o Show(params.type)
    \o (IF params.breaking THEN <<"!">> ELSE <<>>)
    \o (IF Truthy(params.scope) THEN <<"(">> \o params.scope \o <<")">> ELSE <<>>)
    \o <<":", " ">> \o Show(params.title)

\* `${emoji} ${type}${scopeStr}${breakingPrefix}: ${title}`
FirstLine(params) ==
  LET emoji == EmojiOf(params.type)
      scopeStr == IF Truthy(params.scope) THEN <<"(">> \o params.scope \o <<")">> ELSE <<>>
      breakingPrefix == IF params.breaking THEN <<"!">> ELSE <<>>
  IN Show(emoji) \o <<" ">> \o Show(params.type) \o scopeStr
       \o breakingPrefix \o <<":", " ">> \o Show(params.title)

formatCommitMessage(params) ==
  IF ~HasProperty(params.type)
  THEN Threw(Text("Invalid commit type: ") \o Show(params.type))
  ELSE LET withDescription ==
             IF Truthy(params.description)
             THEN FirstLine(params) \o <<"\n", "\n">> \o params.description
             ELSE FirstLine(params)
       IN Returned(
            IF params.breaking /\ Truthy(params.description)
                 /\ ~Includes(params.description, BreakingMarker)
            THEN withDescription \o <<"\n", "\n">> \o BreakingMarker \o <<" ">>
            ELSE withDescription)

NotSpace(c) == ~IsSpace(c)

IsLowerAZ(c) == c \in Range(LowerLetters)

NotCloseParen(c) == c # ")"

\* firstLine.match(/^([^\s]+)\s+/): the token, and the length of the whole match
EmojiRun(firstLine, n, ws) ==
  IF n >= 1 /\ ws >= 1
  THEN [matched |-> TRUE, emoji |-> SubSeq(firstLine, 1, n), whole |-> n + ws]
  ELSE [matched |-> FALSE, emoji |-> <<>>, whole |-> 0]

EmojiRegex(firstLine) ==
  EmojiRun(firstLine, RunLen(firstLine, NotSpace, 1),
           RunLen(firstLine, IsSpace, RunLen(firstLine, NotSpace, 1) + 1))

NoMatch ==
  [matched |-> FALSE, type |-> <<>>, scope |-> Undefined, breaking |-> Undefined,
   title |-> <<>>]

\* :\s+(.+)$ on what follows the colon: \s+ is greedy and gives units back
\* until (.+)$ can match what is left; cuts holds the lengths \s+ can take
TitleCut(after, cuts) == CHOOSE c \in cuts : \A d \in cuts : d <= c

\* cuts for a title pattern that also matches nothing
TitleCuts_Empty(after, k) ==
  {j \in 1..k : j <= Len(after) /\ \A i \in (j + 1)..Len(after) : ~IsLineTerminator(after[i])}

TitleCuts(after, k) ==
  {j \in 1..k : j < Len(after) /\ \A i \in (j + 1)..Len(after) : ~IsLineTerminator(after[i])}

MatchTitle(type, scope, breaking, after, cuts) ==
  IF cuts = {} THEN NoMatch
  ELSE [matched |-> TRUE, type |-> type, scope |-> scope, breaking |-> breaking,
        title |-> SubSeq(after, TitleCut(after, cuts) + 1, Len(after))]

\* : at position p3, after the optional (!)
MatchColon(rest, type, scope, breaking, p3) ==
  IF p3 <= Len(rest) /\ rest[p3] = ":"
  THEN MatchTitle(type, scope, breaking, SubSeq(rest, p3 + 1, Len(rest)),
                  TitleCuts(SubSeq(rest, p3 + 1, Len(rest)),
                            RunLen(SubSeq(rest, p3 + 1, Len(rest)), IsSpace, 1)))
  ELSE NoMatch

\* (!)? at position p2, after the optional scope
MatchBang(rest, type, scope, p2) ==
  IF p2 <= Len(rest) /\ rest[p2] = "!"
  THEN MatchColon(rest, type, scope, <<"!">>, p2 + 1)
  ELSE MatchColon(rest, type, scope, Undefined, p2)

\* (\([^)]+\))? at position p1: m units that are no ')' follow the '('
MatchScope(rest, type, p1, m) ==
  IF m >= 1 /\ p1 + 1 + m <= Len(rest)
  THEN MatchBang(rest, type, SubSeq(rest, p1, p1 + m + 1), p1 + m + 2)
  ELSE MatchBang(rest, type, Undefined, p1)

\* ^([a-z]+) took the first n units
MatchType(rest, n) ==
  IF n < 1 THEN NoMatch
  ELSE MatchScope(rest, SubSeq(rest, 1, n), n + 1,
                  IF n + 1 <= Len(rest) /\ rest[n + 1] = "("
                  THEN RunLen(rest, NotCloseParen, n + 2) ELSE 0)

\* restOfLine.match(/^([a-z]+)(\([^)]+\))?(!)?:\s+(.+)$/)
TypeRegex(rest) == MatchType(rest, RunLen(rest, IsLowerAZ, 1))

TitleMax == 50

LineMax == 72

nonImperativePrefixes ==
  <<<<"a", "d", "d", "e", "d">>,
    <<"a", "d", "d", "s">>,
    <<"f", "i", "x", "e", "d">>,
    <<"f", "i", "x", "e", "s">>,
    <<"u", "p", "d", "a", "t", "e", "d">>,
    <<"u", "p", "d", "a", "t", "e", "s">>>>

\* prefix.replace(/s?ed$/, '').replace(/es$/, '').replace(/s$/, '')
StripEnd(s, suffix) == IF EndsWith(s, suffix) THEN SubSeq(s, 1, Len(s) - Len(suffix)) ELSE s

\* a suggestion that repeats the prefix
ImperativeOf_Same(prefix) == prefix

ImperativeOf(prefix) ==
  LET a == IF EndsWith(prefix, <<"s", "e", "d">>) THEN StripEnd(prefix, <<"s", "e", "d">>)
           ELSE StripEnd(prefix, <<"e", "d">>)
      b == StripEnd(a, <<"e", "s">>)
  IN StripEnd(b, <<"s">>)

\* the loop over nonImperativePrefixes, which breaks at the first hit
FirstHit(hits) == CHOOSE i \in hits : \A h \in hits : i <= h

ImperativeWarning(hits) ==
  IF hits = {} THEN <<>>
  ELSE <<Text("Use imperative mood: \"") \o nonImperativePrefixes[FirstHit(hits)]
           \o Text("\" should be \"") \o ImperativeOf(nonImperativePrefixes[FirstHit(hits)])
           \o Text("\"")>>

\* the warnings of the title checks, in the order the code pushes them
TitleWarnings(title) ==
  (IF Len(title) > TitleMax
   THEN <<Text("Title is ") \o Text(ToString(Len(title))) \o Text(" characters (recommended max: 50)")>>
   ELSE <<>>)
  \o (IF Len(title) >= 1 /\ title[1] = ToUpperCase(title[1]) /\ title[1] # ToLowerCase(title[1])
      THEN <<Text("Title should start with lowercase letter")>>
      ELSE <<>>)
  \o (IF EndsWith(title, <<".">>)
      THEN <<Text("Title should not end with a period")>>
      ELSE <<>>)
  \o ImperativeWarning({i \in DOMAIN nonImperativePrefixes :
                          StartsWith(LowerStr(title), nonImperativePrefixes[i])})

\* the warnings of the description checks: lines[1] and lines[2..]
RECURSIVE LongLineWarnings(_, _)
LongLineWarnings(lines, i) ==
  IF i >= Len(lines) THEN <<>>
  ELSE (IF Len(lines[i + 1]) > LineMax
        THEN <<Text("Line ") \o Text(ToString(i + 1)) \o Text(" is ")
                 \o Text(ToString(Len(lines[i + 1]))) \o Text(" characters (recommended max: 72)")>>
        ELSE <<>>)
       \o LongLineWarnings(lines, i + 1)

DescriptionWarnings(lines) ==
  IF Len(lines) > 1
  THEN (IF lines[2] # <<>>
        THEN <<Text("Second line should be blank (separate title from description)")>>
        ELSE <<>>)
       \o LongLineWarnings(lines, 2)
  ELSE <<>>

\* a verdict that also counts the warnings
IsValid_CountsWarnings(issues, warnings) == Len(issues) = 0 /\ Len(warnings) = 0

\* valid: issues.length === 0
IsValid(issues, warnings) == Len(issues) = 0

\* the type and emoji checks, then the empty-title check
HeaderIssues(emoji, type, title) ==
  (IF ~HasProperty(type)
   THEN <<Text("Invalid commit type: ") \o type>>
   ELSE IF emoji # EmojiOf(type)
   THEN <<Text("Emoji ") \o emoji \o Text(" doesn't match type ") \o type
            \o Text(". Expected ") \o Show(EmojiOf(type))>>
   ELSE <<>>)
  \o (IF Len(title) = 0 THEN <<Text("Title cannot be empty")>> ELSE <<>>)

\* the final return of validateCommitMessage
Outcome(issues, warnings) ==
  [valid |-> IsValid(issues, warnings),
   issues |-> issues,
   warnings |-> IF Len(warnings) > 0 THEN warnings ELSE Undefined]

\* an early return of validateCommitMessage
Rejected(issue) == [valid |-> FALSE, issues |-> <<Text(issue)>>, warnings |-> <<>>]

ValidateHeader(lines, emoji, typeMatch) ==
  IF ~typeMatch.matched
  THEN Rejected("Invalid commit format. Expected: <emoji> <type>(<scope>): <title>")
  ELSE Outcome(HeaderIssues(emoji, typeMatch.type, typeMatch.title),
               TitleWarnings(typeMatch.title) \o DescriptionWarnings(lines))

ValidateLines(lines, emojiMatch) ==
  IF ~emojiMatch.matched
  THEN Rejected("Commit message must start with an emoji")
  ELSE ValidateHeader(lines, emojiMatch.emoji,
                      TypeRegex(SubstringFrom(lines[1], Len(emojiMatch.emoji) + 1)))

validateCommitMessage(msg) ==
  IF msg = <<>> \/ Len(Trim(msg)) = 0
  THEN Rejected("Commit message cannot be empty")
  ELSE ValidateLines(Split(msg, "\n"), EmojiRegex(Split(msg, "\n")[1]))

Null == [isNull |-> TRUE]

ParseHeader(lines, typeMatch) ==
  IF ~typeMatch.matched THEN Null
  ELSE [isNull |-> FALSE,
        type |-> typeMatch.type,
        scope |-> IF Truthy(typeMatch.scope)
                  THEN SubSeq(typeMatch.scope, 2, Len(typeMatch.scope) - 1)
                  ELSE Undefined,
        title |-> typeMatch.title,
        description |-> IF Len(lines) > 2
                        THEN Trim(Join(SubSeq(lines, 3, Len(lines)), <<"\n">>))
                        ELSE Undefined,
        breaking |-> typeMatch.breaking = <<"!">>]

\* a parse that gives up on a type the registry does not hold
ParseLines_Registered(lines, emojiMatch) ==
  IF ~emojiMatch.matched THEN Null
  ELSE IF TypeRegex(SubstringFrom(lines[1], emojiMatch.whole)).type \notin DOMAIN registry
  THEN Null
  ELSE ParseHeader(lines, TypeRegex(SubstringFrom(lines[1], emojiMatch.whole)))

ParseLines(lines, emojiMatch) ==
  IF ~emojiMatch.matched THEN Null
  ELSE ParseHeader(lines, TypeRegex(SubstringFrom(lines[1], emojiMatch.whole)))

parseCommitMessage(msg) == ParseLines(Split(msg, "\n"), EmojiRegex(Split(msg, "\n")[1]))

\* a fit test that forgets the separating space
Fits_NoSeparator(currentLine, word, width) == Len(currentLine) + Len(word) <= width

\* currentLine.length + word.length + 1 <= width
Fits(currentLine, word, width) == Len(currentLine) + Len(word) + 1 <= width

\* the loop of wrapText over words[i..], then the final flush
RECURSIVE WrapLoop(_, _, _, _, _)
WrapLoop(words, i, lines, currentLine, width) ==
  IF i > Len(words)
  THEN IF Len(currentLine) > 0 THEN Append(lines, currentLine) ELSE lines
  ELSE LET word == words[i]
       IN IF Fits(currentLine, word, width)
          THEN WrapLoop(words, i + 1, lines,
                        currentLine \o (IF Len(currentLine) > 0 THEN <<" ">> ELSE <<>>) \o word,
                        width)
          ELSE WrapLoop(words, i + 1,
                        IF Len(currentLine) > 0 THEN Append(lines, currentLine) ELSE lines,
                        word, width)

wrapText(text, width) == Join(WrapLoop(Split(text, " "), 1, <<>>, <<>>, width), <<"\n">>)

(***************************************************************************)
(* Change classifier (git.ts)                                              *)
(***************************************************************************)

AnyEndsWith(f, suffixes) == \E x \in suffixes : EndsWith(f, x)

AnyIncludes(f, parts) == \E x \in parts : Includes(f, x)

\* /\.(md|txt|rst|adoc)$/i, or includes 'README' or 'docs/'
IsDocFile(f) ==
  \/ AnyEndsWith(LowerStr(f), {<<".", "m", "d">>, <<".", "t", "x", "t">>, <<".", "r", "s", "t">>, <<".", "a", "d", "o", "c">>})
  \/ Includes(f, <<"R", "E", "A", "D", "M", "E">>)
  \/ Includes(f, <<"d", "o", "c", "s", "/">>)

\* /\.(test|spec)\.(ts|js|tsx|jsx)$/i, or includes '__tests__/', 'test/' or 'tests/'
IsTestFile(f) ==
  \/ \E a \in {<<".", "t", "e", "s", "t">>, <<".", "s", "p", "e", "c">>} :
       AnyEndsWith(LowerStr(f), {a \o <<".", "t", "s">>, a \o <<".", "j", "s">>, a \o <<".", "t", "s", "x">>, a \o <<".", "j", "s", "x">>})
  \/ AnyIncludes(f, {<<"_", "_", "t", "e", "s", "t", "s", "_", "_", "/">>, <<"t", "e", "s", "t", "/">>, <<"t", "e", "s", "t", "s", "/">>})

\* /\.(yml|yaml)$/i and includes '.github/', '.gitlab/', 'jenkins' or 'circle'
IsCiFile(f) ==
  /\ AnyEndsWith(LowerStr(f), {<<".", "y", "m", "l">>, <<".", "y", "a", "m", "l">>})
  /\ AnyIncludes(f, {<<".", "g", "i", "t", "h", "u", "b", "/">>, <<".", "g", "i", "t", "l", "a", "b", "/">>, <<"j", "e", "n", "k", "i", "n", "s">>, <<"c", "i", "r", "c", "l", "e">>})

BuildFileNames ==
  {<<"p", "a", "c", "k", "a", "g", "e", ".", "j", "s", "o", "n">>,
   <<"p", "a", "c", "k", "a", "g", "e", "-", "l", "o", "c", "k", ".", "j", "s", "o", "n">>,
   <<"y", "a", "r", "n", ".", "l", "o", "c", "k">>,
   <<"p", "n", "p", "m", "-", "l", "o", "c", "k", ".", "y", "a", "m", "l">>,
   <<"g", "e", "m", "f", "i", "l", "e", ".", "l", "o", "c", "k">>,
   <<"r", "e", "q", "u", "i", "r", "e", "m", "e", "n", "t", "s", ".", "t", "x", "t">>,
   <<"p", "o", "m", ".", "x", "m", "l">>,
   <<"b", "u", "i", "l", "d", ".", "g", "r", "a", "d", "l", "e">>,
   <<"c", "a", "r", "g", "o", ".", "t", "o", "m", "l">>,
   <<"g", "o", ".", "m", "o", "d">>,
   <<"g", "o", ".", "s", "u", "m">>}

\* /^(package\.json|package-lock\.json|...|go\.sum)$/i
IsBuildFile(f) == LowerStr(f) \in BuildFileNames

\* /lock|package\.json/i
IsDepsFile(f) == AnyIncludes(LowerStr(f), {<<"l", "o", "c", "k">>, <<"p", "a", "c", "k", "a", "g", "e", ".", "j", "s", "o", "n">>})

\* /\.(config|conf|cfg|ini|env|rc)(\.(ts|js|json|yaml|yml))?$/i, or startsWith('.')
IsConfigFile(f) ==
  \/ \E a \in {<<".", "c", "o", "n", "f", "i", "g">>, <<".", "c", "o", "n", "f">>, <<".", "c", "f", "g">>, <<".", "i", "n", "i">>, <<".", "e", "n", "v">>, <<".", "r", "c">>} :
       AnyEndsWith(LowerStr(f),
                   {a, a \o <<".", "t", "s">>, a \o <<".", "j", "s">>, a \o <<".", "j", "s", "o", "n">>, a \o <<".", "y", "a", "m", "l">>, a \o <<".", "y", "m", "l">>})
  \/ StartsWith(f, <<".">>)

\* a test that looks at the first file only
AllMatch_FirstOnly(matching, files) == Len(matching) > 0 /\ matching[1] = files[1]

\* a test that is content with one matching file
AllMatch_Any(matching, files) == Len(matching) > 0

\* docFiles.length > 0 && docFiles.length === files.length
AllMatch(matching, files) == Len(matching) > 0 /\ Len(matching) = Len(files)

\* files.filter(pred).length > 0 && ... === files.length
AllFiles(files, P(_)) == AllMatch(SelectSeq(files, P), files)

Suggest(type, reason, confidence) ==
  Returned([type |-> type, emoji |-> EmojiOf(type), reason |-> reason,
            confidence |-> confidence])

\* ratio = deletions > 0 ? additions / deletions : additions > 0 ? 10 : 0,
\* kept as the fraction num/den; the thresholds 2, 0.7 and 1.3 are compared
\* after multiplying through
RatioNum(additions, deletions) ==
  IF deletions > 0 THEN additions ELSE IF additions > 0 THEN 10 ELSE 0

\* a ratio that never divides by the deletions
RatioDen_One(additions, deletions) == 1

RatioDen(additions, deletions) == IF deletions > 0 THEN deletions ELSE 1

\* the volume/ratio rules, when no category rule decided
SuggestByVolume(additions, deletions) ==
  LET num == RatioNum(additions, deletions)
      den == RatioDen(additions, deletions)
  IN IF num > 2 * den /\ additions > 50
     THEN Suggest(<<"f", "e", "a", "t">>,
                  Text("Significant additions (") \o Text(ToString(additions))
                    \o Text(" lines added vs ") \o Text(ToString(deletions))
                    \o Text(" deleted) suggest new feature"),
                  "medium")
     ELSE IF 10 * num > 7 * den /\ 10 * num < 13 * den /\ additions + deletions > 100
     THEN Suggest(<<"r", "e", "f", "a", "c", "t", "o", "r">>,
                  Text("Balanced changes (") \o Text(ToString(additions))
                    \o Text(" added, ") \o Text(ToString(deletions))
                    \o Text(" deleted) suggest refactoring"),
                  "medium")
     ELSE IF additions + deletions < 50
     THEN Suggest(<<"f", "i", "x">>, Text("Small changes suggest bug fix"), "low")
     ELSE Suggest(<<"f", "e", "a", "t">>,
                  Text("Unable to determine specific type, defaulting to feature"), "low")

\* an empty file list taken for a change like any other
NoFiles_Never(st) == FALSE

\* stats.files.length === 0
NoFiles(st) == Len(st.files) = 0

\* suggestCommitType, from the DiffStats that getStagedDiff returned
suggestCommitType(st) ==
  LET files == st.files
      buildFiles == SelectSeq(files, IsBuildFile)
  IN IF NoFiles(st)
     THEN Threw(Text("No staged changes found"))
     ELSE IF AllFiles(files, IsDocFile)
     THEN Suggest(<<"d", "o", "c", "s">>, Text("All changes are to documentation files"), "high")
     ELSE IF AllFiles(files, IsTestFile)
     THEN Suggest(<<"t", "e", "s", "t">>, Text("All changes are to test files"), "high")
     ELSE IF AllFiles(files, IsCiFile)
     THEN Suggest(<<"c", "i">>, Text("All changes are to CI/CD configuration files"), "high")
     ELSE IF Len(buildFiles) > 0
     THEN IF \E i \in DOMAIN buildFiles : IsDepsFile(buildFiles[i])
          THEN Suggest(<<"d", "e", "p", "s">>, Text("Changes to dependency files detected"), "high")
          ELSE Suggest(<<"b", "u", "i", "l", "d">>, Text("Changes to build configuration detected"), "high")
     ELSE IF AllFiles(files, IsConfigFile)
     THEN Suggest(<<"c", "h", "o", "r", "e">>, Text("All changes are to configuration files"), "high")
     ELSE SuggestByVolume(st.additions, st.deletions)

(***************************************************************************)
(* Inputs of the codec                                                     *)
(***************************************************************************)

MaxTitleLen == 2

TitleAlphabet == {"a", "A", ".", " "}

RECURSIVE Rep(_, _)
Rep(c, n) == IF n = 0 THEN <<>> ELSE <<c>> \o Rep(c, n - 1)

SeqsUpTo(alphabet, n) == UNION {[1..k -> alphabet] : k \in 0..n}

TitleInputs ==
  SeqsUpTo(TitleAlphabet, MaxTitleLen)
    \union {<<"a", "d", "d", " ", "O", "A", "u", "t", "h", "2", " ", "a", "u", "t", "h", "e", "n", "t", "i", "c", "a", "t", "i", "o", "n">>,
            <<"A", "d", "d", "e", "d", " ", "l", "o", "g", "i", "n", ".">>,
            <<"f", "i", "x", "e", "s", " ", "x">>,
            <<"a", "d", "d", "s", " ", "x">>,
            <<"f", "i", "x", "e", "d", " ", "x">>,
            <<"U", "p", "d", "a", "t", "e", "d", " ", "x">>,
            <<"u", "p", "d", "a", "t", "e", "s", " ", "x">>,
            Rep("x", TitleMax),
            Rep("x", TitleMax + 1)}

TypeInputs ==
  CommitType \union ObjectPrototypeKeys
    \union {<<"b", "o", "g", "u", "s">>, <<>>}

ScopeInputs ==
  {Undefined, <<>>, <<"a", "u", "t", "h">>, <<"a", ")", "b">>}

DescriptionInputs ==
  {Undefined, <<>>,
   <<"I", "m", "p", "l", "e", "m", "e", "n", "t", "e", "d", " ", "O", "A", "u", "t", "h", "2", " ", "f", "l", "o", "w", ".">>,
   <<" ", "b", "o", "d", "y", "\n">>,
   <<"B", "R", "E", "A", "K", "I", "N", "G", " ", "C", "H", "A", "N", "G", "E", ":", " ", "a", "p", "i">>,
   Rep("y", LineMax + 1)}

FieldsInputs ==
  [type : TypeInputs, scope : ScopeInputs, title : TitleInputs,
   description : DescriptionInputs, breaking : BOOLEAN]

\* messages that no call of formatCommitMessage need have produced
RawEmoji ==
  {<<>>, COMMIT_TYPES[<<"f", "e", "a", "t">>].emoji, COMMIT_TYPES[<<"f", "i", "x">>].emoji, <<"x">>}

RawHeader ==
  {<<"f", "e", "a", "t">>, <<"b", "o", "g", "u", "s">>, <<"i", "1", "8", "n">>,
   <<"c", "o", "n", "s", "t", "r", "u", "c", "t", "o", "r">>, <<"F">>, <<>>}

RawScope == {<<>>, <<"(", "a", ")">>, <<"(", ")">>, <<"(", "a">>}

RawTitle == {<<>>, <<"a">>, <<"A", ".">>, <<"A", "d", "d", "e", "d", " ", "l", "o", "g", "i", "n", ".">>, <<"\r">>, Rep("x", TitleMax + 1)}

RawTail ==
  {<<>>, <<"\n">>, <<"\n", "\n", "b">>, <<"\n", "b">>,
   <<"\n", "\n">> \o Rep("y", LineMax + 1)}

RawInputs ==
  {e \o s1 \o h \o sc \o b \o c \o s2 \o t \o tl :
     e \in RawEmoji, s1 \in {<<>>, <<" ">>, <<" ", " ">>}, h \in RawHeader,
     sc \in RawScope, b \in {<<>>, <<"!">>}, c \in {<<>>, <<":">>},
     s2 \in {<<>>, <<" ">>}, t \in RawTitle, tl \in RawTail}

(***************************************************************************)
(* The values of the parts of the state that a specification leaves idle   *)
(***************************************************************************)

NoFields ==
  [type |-> Undefined, scope |-> Undefined, title |-> Undefined,
   description |-> Undefined, breaking |-> FALSE]

NoValidation == [valid |-> FALSE, issues |-> <<>>, warnings |-> <<>>]

NotCalled == [threw |-> FALSE, value |-> Undefined]

NoStats == [additions |-> 0, deletions |-> 0, files |-> <<>>]

MaxInvocations == 2

Invocations == 1..MaxInvocations

\* request.params.arguments: undefined, or an object of named properties
NoArgs ==
  [present |-> FALSE, type |-> Undefined, scope |-> Undefined, title |-> Undefined,
   description |-> Undefined, breaking |-> FALSE, message |-> Undefined]

NoResponse == [isError |-> FALSE, fault |-> FALSE, text |-> <<>>]

IdleInvocation ==
  [pc |-> "idle", name |-> "", args |-> NoArgs, hasChanges |-> "unknown",
   message |-> Undefined, validation |-> NoValidation, commitHash |-> Undefined,
   commitCalls |-> 0, steps |-> <<>>, thrown |-> Undefined, response |-> NoResponse]

CodecOff ==
  /\ cpc = "off"
  /\ fields = NoFields
  /\ message = Undefined
  /\ formatted = NotCalled
  /\ validation = NoValidation
  /\ parsed = Null

WrapOff ==
  /\ wpc = "off"
  /\ wtext = <<>>
  /\ wwidth = 0
  /\ wout = <<>>

SuggestOff ==
  /\ spc = "off"
  /\ stats = NoStats
  /\ suggestion = NotCalled

ServerOff ==
  /\ repo = [staged |-> NoStats, commits |-> 0]
  /\ inv = [p \in Invocations |-> IdleInvocation]

(***************************************************************************)
(* The codec applied to one input: format, then validate, then parse       *)
(***************************************************************************)

CodecInit ==
  /\ registry = COMMIT_TYPES
  /\ ServerOff
  /\ WrapOff
  /\ SuggestOff
  /\ formatted = NotCalled
  /\ validation = NoValidation
  /\ parsed = Null
  /\ \/ /\ cpc = "fields"
        /\ fields \in FieldsInputs
        /\ message = Undefined
     \/ /\ cpc = "message"
        /\ fields = NoFields
        /\ message \in RawInputs

Format ==
  /\ cpc = "fields"
  /\ formatted' = formatCommitMessage(fields)
  /\ IF formatted'.threw
     THEN cpc' = "threw" /\ UNCHANGED message
     ELSE cpc' = "message" /\ message' = formatted'.value
  /\ UNCHANGED <<registry, fields, validation, parsed, wrapVars, suggestVars, serverVars>>

Validate ==
  /\ cpc = "message"
  /\ validation' = validateCommitMessage(message)
  /\ cpc' = "validated"
  /\ UNCHANGED <<registry, fields, message, formatted, parsed, wrapVars, suggestVars, serverVars>>

Parse ==
  /\ cpc = "validated"
  /\ parsed' = parseCommitMessage(message)
  /\ cpc' = "parsed"
  /\ UNCHANGED <<registry, fields, message, formatted, validation, wrapVars, suggestVars, serverVars>>

CodecNext == Format \/ Validate \/ Parse

SpecCodec == CodecInit /\ [][CodecNext]_vars

(***************************************************************************)
(* wrapText applied to one text and width                                  *)
(***************************************************************************)

MaxTextLen == 8

MaxWidth == 4

WrapAlphabet == {"a", "b", " "}

WrapInit ==
  /\ registry = COMMIT_TYPES
  /\ ServerOff
  /\ CodecOff
  /\ SuggestOff
  /\ wpc = "call"
  /\ wtext \in SeqsUpTo(WrapAlphabet, MaxTextLen)
  /\ wwidth \in 0..MaxWidth
  /\ wout = <<>>

Wrap ==
  /\ wpc = "call"
  /\ wout' = wrapText(wtext, wwidth)
  /\ wpc' = "done"
  /\ UNCHANGED <<registry, codecVars, wtext, wwidth, suggestVars, serverVars>>

WrapNext == Wrap

SpecWrap == WrapInit /\ [][WrapNext]_vars

(***************************************************************************)
(* suggestCommitType applied to one DiffStats                              *)
(***************************************************************************)

MaxFiles == 2

FilePaths ==
  {<<"R", "E", "A", "D", "M", "E", ".", "m", "d">>,
   <<"d", "o", "c", "s", "/", "g", "u", "i", "d", "e", ".", "t", "s">>,
   <<"s", "r", "c", "/", "a", "u", "t", "h", "/", "l", "o", "g", "i", "n", ".", "t", "s">>,
   <<"s", "r", "c", "/", "l", "o", "g", "i", "n", ".", "t", "e", "s", "t", ".", "t", "s">>,
   <<".", "g", "i", "t", "h", "u", "b", "/", "w", "o", "r", "k", "f", "l", "o", "w", "s", "/", "c", "i", ".", "y", "m", "l">>,
   <<"p", "a", "c", "k", "a", "g", "e", ".", "j", "s", "o", "n">>,
   <<"g", "o", ".", "m", "o", "d">>,
   <<"r", "e", "q", "u", "i", "r", "e", "m", "e", "n", "t", "s", ".", "t", "x", "t">>,
   <<".", "e", "n", "v">>,
   <<"a", "p", "p", ".", "c", "o", "n", "f", "i", "g", ".", "j", "s">>}

\* lists of distinct paths: getStagedDiff returns Array.from(new Set(...))
FileLists ==
  {fs \in SeqsUpTo(FilePaths, MaxFiles) : \A i, j \in DOMAIN fs : i # j => fs[i] # fs[j]}

AdditionInputs == {0, 10, 50, 60, 100, 245}

DeletionInputs == {0, 12, 50, 60}

StatsInputs == [additions : AdditionInputs, deletions : DeletionInputs, files : FileLists]

ClassifyInit ==
  /\ registry = COMMIT_TYPES
  /\ ServerOff
  /\ CodecOff
  /\ WrapOff
  /\ spc = "call"
  /\ stats \in StatsInputs
  /\ suggestion = NotCalled

Classify ==
  /\ spc = "call"
  /\ suggestion' = suggestCommitType(stats)
  /\ spc' = "done"
  /\ UNCHANGED <<registry, codecVars, wrapVars, stats, serverVars>>

ClassifyNext == Classify

SpecClassify == ClassifyInit /\ [][ClassifyNext]_vars

(***************************************************************************)
(* Tool dispatcher (index.ts) over the git repository (git.ts)             *)
(***************************************************************************)

MaxCommits == 1

FieldArgs(type, title, breaking) ==
  [present |-> TRUE, type |-> type, scope |-> Undefined, title |-> title,
   description |-> Undefined, breaking |-> breaking, message |-> Undefined]

MessageArgs(msg) ==
  [present |-> TRUE, type |-> Undefined, scope |-> Undefined, title |-> Undefined,
   description |-> Undefined, breaking |-> FALSE, message |-> msg]

\* the arguments of the git_format_message calls, of the git_commit calls
\* and of the git_validate_message calls
FormatArgsInputs ==
  {FieldArgs(<<"f", "e", "a", "t">>, <<"a", "d", "d", " ", "l", "o", "g", "i", "n">>, TRUE),
   FieldArgs(<<"b", "o", "g", "u", "s">>, <<"a", "d", "d", " ", "l", "o", "g", "i", "n">>, FALSE),
   NoArgs}

CommitArgsInputs ==
  {FieldArgs(<<"f", "e", "a", "t">>, <<"A", "d", "d", "e", "d", " ", "l", "o", "g", "i", "n", ".">>, FALSE),
   FieldArgs(<<"i", "1", "8", "n">>, <<"a", "d", "d", " ", "l", "o", "g", "i", "n">>, FALSE),
   FieldArgs(<<"b", "o", "g", "u", "s">>, <<"a", "d", "d", " ", "l", "o", "g", "i", "n">>, FALSE),
   NoArgs}

MessageArgsInputs ==
  {MessageArgs(COMMIT_TYPES[<<"f", "e", "a", "t">>].emoji \o <<" ", "f", "e", "a", "t", ":", " ", "A", "d", "d", "e", "d", " ", "l", "o", "g", "i", "n", ".">>),
   MessageArgs(<<"f", "e", "a", "t", ":", " ", "a", "d", "d", " ", "l", "o", "g", "i", "n">>),
   MessageArgs(<<>>),
   NoArgs}

UnknownToolNames == {"git_push"}

\* what git diff --staged and git status report when changes are staged
StagedInputs ==
  {[additions |-> 245, deletions |-> 12, files |-> <<<<"s", "r", "c", "/", "a", "u", "t", "h", "/", "l", "o", "g", "i", "n", ".", "t", "s">>>>]}

\* the result of a handler that returned text
Result(text) == [isError |-> FALSE, fault |-> FALSE, text |-> text]

\* an error that leaves the request handler uncaught
Caught_Rethrown(errorMessage) == [isError |-> FALSE, fault |-> TRUE, text |-> <<>>]

\* the catch clause of the CallToolRequestSchema handler
Caught(errorMessage) ==
  [isError |-> TRUE, fault |-> FALSE, text |-> Text("Error: ") \o errorMessage]

\* a handler threw new Error(msg): the call ends in the catch clause
Throw(call, msg) == [call EXCEPT !.pc = "done", !.thrown = msg, !.response = Caught(msg)]

Return(call, text) == [call EXCEPT !.pc = "done", !.response = Result(text)]

\* reading a property of undefined arguments
TypeErrorUndefined(property) ==
  Text("Cannot read properties of undefined (reading '") \o Text(property) \o Text("')")

\* git itself failing, as simple-git reports it
GitFailure == Text("Error: git failed")

\* params of handleFormatMessage and handleCommit
ParamsOf(args) ==
  [type |-> args.type, scope |-> args.scope, title |-> args.title,
   description |-> args.description, breaking |-> args.breaking]

\* list.forEach((x, i) => text += `${i + 1}. ${x}\n`)
RECURSIVE Numbered(_, _)
Numbered(list, i) ==
  IF i > Len(list) THEN <<>>
  ELSE Text(ToString(i)) \o Text(". ") \o list[i] \o <<"\n">> \o Numbered(list, i + 1)

\* result.warnings && result.warnings.length > 0
HasWarnings(v) == v.warnings # Undefined /\ Len(v.warnings) > 0

WarningsText(v, heading) ==
  IF HasWarnings(v) THEN Text(heading) \o Numbered(v.warnings, 1) ELSE <<>>

hasStagedChanges == Len(repo.staged.files) > 0

ServerInit ==
  /\ registry = COMMIT_TYPES
  /\ CodecOff
  /\ WrapOff
  /\ SuggestOff
  /\ repo = [staged |-> NoStats, commits |-> 0]
  /\ inv = [p \in Invocations |-> IdleInvocation]

ServerUnchanged == UNCHANGED <<registry, codecVars, wrapVars, suggestVars>>

\* the request handler from its entry to the switch on the tool name
Called(name, args) == [IdleInvocation EXCEPT !.pc = name, !.name = name, !.args = args]

\* git_format_message: handleFormatMessage runs to its end without awaiting
HandleFormatMessage(p) ==
  /\ inv[p].pc = "idle"
  /\ \E args \in FormatArgsInputs :
       LET call == Called("git_format_message", args)
           r == formatCommitMessage(ParamsOf(args))
       IN inv' = [inv EXCEPT ![p] =
                    IF ~args.present THEN Throw(call, TypeErrorUndefined("type"))
                    ELSE IF r.threw THEN Throw(call, r.error)
                    ELSE Return([call EXCEPT !.message = r.value],
                                Text("Formatted commit message:\n\n") \o r.value)]
  /\ UNCHANGED repo
  /\ ServerUnchanged

\* git_validate_message: handleValidateMessage runs to its end without awaiting
HandleValidateMessage(p) ==
  /\ inv[p].pc = "idle"
  /\ \E args \in MessageArgsInputs :
       LET call == Called("git_validate_message", args)
           result == validateCommitMessage(args.message)
       IN inv' = [inv EXCEPT ![p] =
                    IF ~args.present THEN Throw(call, TypeErrorUndefined("message"))
                    ELSE IF ~Truthy(args.message) THEN Throw(call, Text("Message is required"))
                    ELSE Return([call EXCEPT !.message = args.message, !.validation = result],
                                (IF result.valid
                                 THEN Text("Commit message is valid!\n")
                                 ELSE Text("Commit message has issues:\n\n")
                                        \o Numbered(result.issues, 1))
                                  \o WarningsText(result, "\nWarnings:\n"))]
  /\ UNCHANGED repo
  /\ ServerUnchanged

\* a tool name that is no case of the switch
UnknownTool(p) ==
  /\ inv[p].pc = "idle"
  /\ \E name \in UnknownToolNames :
       inv' = [inv EXCEPT ![p] =
                 Throw(Called(name, NoArgs), Text("Unknown tool: ") \o Text(name))]
  /\ UNCHANGED repo
  /\ ServerUnchanged

\* git_suggest_type: handleSuggestType awaits suggestCommitType
CallSuggestType(p) ==
  /\ inv[p].pc = "idle"
  /\ inv' = [inv EXCEPT ![p] = Called("git_suggest_type", NoArgs)]
  /\ UNCHANGED repo
  /\ ServerUnchanged

\* getStagedDiff has read the repository, or failed; the rest of
\* suggestCommitType and of handleSuggestType follows
HandleSuggestType(p) ==
  /\ inv[p].pc = "git_suggest_type"
  /\ LET call == inv[p]
         r == suggestCommitType(repo.staged)
     IN \/ inv' = [inv EXCEPT ![p] =
                     Throw(call, Text("Failed to get staged diff: ") \o GitFailure)]
        \/ inv' = [inv EXCEPT ![p] =
                     IF r.threw THEN Throw(call, r.error)
                     ELSE Return(call,
                                 Text("Suggested commit type: ") \o r.value.emoji \o <<" ">>
                                   \o r.value.type \o Text("\n\nConfidence: ")
                                   \o Text(r.value.confidence) \o Text("\nReason: ")
                                   \o r.value.reason \o Text("\n\nType description: ")
                                   \o Text(registry[r.value.type].description))]
  /\ UNCHANGED repo
  /\ ServerUnchanged

\* git_commit: handleCommit awaits hasStagedChanges
CallCommit(p) ==
  /\ inv[p].pc = "idle"
  /\ \E args \in CommitArgsInputs :
       inv' = [inv EXCEPT ![p] =
                 [Called("git_commit", args) EXCEPT !.steps = <<"hasStagedChanges">>]]
  /\ UNCHANGED repo
  /\ ServerUnchanged

\* a check that lets every message through
ValidationPasses_Always(v) == TRUE

\* !validation.valid guards the throw of handleCommit
ValidationPasses(v) == v.valid

\* handleCommit from the formatting of the message to the call of createCommit
PrepareCommit(call, r, v) ==
  IF ~call.args.present THEN Throw(call, TypeErrorUndefined("type"))
  ELSE IF r.threw
  THEN Throw([call EXCEPT !.steps = Append(@, "formatCommitMessage")], r.error)
  ELSE IF ~ValidationPasses(v)
  THEN Throw([call EXCEPT !.steps = @ \o <<"formatCommitMessage", "validateCommitMessage">>,
                          !.message = r.value, !.validation = v],
             Text("Invalid commit message:\n") \o Join(v.issues, <<"\n">>))
  ELSE [call EXCEPT !.steps = @ \o <<"formatCommitMessage", "validateCommitMessage",
                                     "createCommit">>,
                    !.message = r.value, !.validation = v,
                    !.commitCalls = @ + 1, !.pc = "createCommit"]

\* hasStagedChanges has read git status, or failed; handleCommit runs on to
\* its next await, the call of createCommit
HandleCommit(p) ==
  /\ inv[p].pc = "git_commit"
  /\ LET call == inv[p]
         r == formatCommitMessage(ParamsOf(call.args))
         v == validateCommitMessage(r.value)
     IN \/ inv' = [inv EXCEPT ![p] =
                     Throw(call, Text("Failed to check git status: ") \o GitFailure)]
        \/ inv' = [inv EXCEPT ![p] =
                     IF ~hasStagedChanges
                     THEN Throw([call EXCEPT !.hasChanges = "no"],
                                Text("No staged changes found. Please stage your changes first with git add."))
                     ELSE PrepareCommit([call EXCEPT !.hasChanges = "yes"], r, v)]
  /\ UNCHANGED repo
  /\ ServerUnchanged

CommitText(call, hash) ==
  Text("Commit created successfully!\n\nCommit hash: ") \o hash
    \o Text("\n\nMessage:\n") \o call.message
    \o WarningsText(call.validation, "\n\nWarnings:\n")

\* git commit has run: createCommit returns or throws and handleCommit ends
CommitCreated(p) ==
  /\ inv[p].pc = "createCommit"
  /\ LET call == inv[p]
         hash == Text("commit-") \o Text(ToString(repo.commits + 1))
     IN \/ \* git commit fails
           /\ inv' = [inv EXCEPT ![p] =
                        Throw(call, Text("Failed to create commit: ") \o GitFailure)]
           /\ UNCHANGED repo
        \/ \* git commit records the staged changes
           /\ hasStagedChanges
           /\ repo.commits < MaxCommits
           /\ repo' = [staged |-> NoStats, commits |-> repo.commits + 1]
           /\ inv' = [inv EXCEPT ![p] =
                        Return([call EXCEPT !.commitHash = hash], CommitText(call, hash))]
        \/ \* nothing is staged any more: git commit creates nothing and
           \* simple-git returns a summary with an empty commit name
           /\ ~hasStagedChanges
           /\ UNCHANGED repo
           /\ inv' = [inv EXCEPT ![p] =
                        Return([call EXCEPT !.commitHash = <<>>], CommitText(call, <<>>))]
  /\ ServerUnchanged

\* the response is sent and the slot is free for the next call
Respond(p) ==
  /\ inv[p].pc = "done"
  /\ inv' = [inv EXCEPT ![p] = IdleInvocation]
  /\ UNCHANGED repo
  /\ ServerUnchanged

\* the user stages changes (git add) or takes them back (git reset)
Stage ==
  /\ repo.staged = NoStats
  /\ \E st \in StagedInputs : repo' = [repo EXCEPT !.staged = st]
  /\ UNCHANGED inv
  /\ ServerUnchanged

Unstage ==
  /\ repo.staged # NoStats
  /\ repo' = [repo EXCEPT !.staged = NoStats]
  /\ UNCHANGED inv
  /\ ServerUnchanged

Next ==
  \/ \E p \in Invocations :
       \/ HandleFormatMessage(p)
       \/ HandleValidateMessage(p)
       \/ UnknownTool(p)
       \/ CallSuggestType(p)
       \/ HandleSuggestType(p)
       \/ CallCommit(p)
       \/ HandleCommit(p)
       \/ CommitCreated(p)
       \/ Respond(p)
  \/ Stage
  \/ Unstage

Init == ServerInit

Spec == Init /\ [][Next]_vars

(***************************************************************************)
(* Concurrent calls on one repository: every slot serves one call, the     *)
(* steps of the calls interleave, and nothing else touches the repository  *)
(***************************************************************************)

StartRepo == [staged |-> CHOOSE st \in StagedInputs : TRUE, commits |-> 0]

ConcurrentInit ==
  /\ registry = COMMIT_TYPES
  /\ CodecOff
  /\ WrapOff
  /\ SuggestOff
  /\ repo = StartRepo
  /\ inv = [p \in Invocations |-> IdleInvocation]

ConcurrentNext ==
  \E p \in Invocations :
    \/ HandleFormatMessage(p)
    \/ HandleValidateMessage(p)
    \/ UnknownTool(p)
    \/ CallSuggestType(p)
    \/ HandleSuggestType(p)
    \/ CallCommit(p)
    \/ HandleCommit(p)
    \/ CommitCreated(p)

SpecConcurrent == ConcurrentInit /\ [][ConcurrentNext]_vars

(***************************************************************************)
(* Properties of the codec, checked under SpecCodec                        *)
(***************************************************************************)

\* the input was a CommitParams and formatCommitMessage returned a message
Formatted == cpc \in {"message", "validated", "parsed"} /\ fields # NoFields

NoLineBreak(s) == \A i \in DOMAIN s : ~IsLineTerminator(s[i])

\* a CommitFields a caller would build: a one-line title that starts with no
\* blank, an optional scope with no parenthesis in it, an optional text
WellFormed(f) ==
  /\ f.title # <<>> /\ ~IsSpace(f.title[1]) /\ NoLineBreak(f.title)
  /\ f.scope = Undefined \/ (f.scope # <<>> /\ NoLineBreak(f.scope) /\ ")" \notin Range(f.scope))
  /\ f.description = Undefined \/ Trim(f.description) # <<>>

SameDescription(d, e) ==
  IF d = Undefined \/ e = Undefined THEN d = e ELSE Trim(d) = Trim(e)

\* C1: parse(format(f)) is not none and equals f field by field (description
\* up to surrounding whitespace) for every well-formed f of a registered type
C1_RoundTrip ==
  (cpc = "parsed" /\ fields # NoFields /\ fields.type \in DOMAIN registry /\ WellFormed(fields))
    => /\ ~parsed.isNull
       /\ parsed.type = fields.type
       /\ parsed.scope = fields.scope
       /\ parsed.title = fields.title
       /\ parsed.breaking = fields.breaking
       /\ SameDescription(parsed.description, fields.description)

StartsUpper(title) ==
  title # <<>> /\ title[1] = ToUpperCase(title[1]) /\ title[1] # ToLowerCase(title[1])

StartsNonImperative(title) ==
  \E i \in DOMAIN nonImperativePrefixes : StartsWith(LowerStr(title), nonImperativePrefixes[i])

\* C2: validate(format(f)) is valid for every f of a registered type whose
\* title is non-empty, at most 50 long, does not end in '.', and starts with
\* neither an uppercase letter nor a non-imperative prefix
C2_FormattedIsValid ==
  (Formatted /\ cpc \in {"validated", "parsed"}
     /\ fields.type \in DOMAIN registry /\ WellFormed(fields)
     /\ fields.title # <<>> /\ Len(fields.title) <= TitleMax
     /\ ~EndsWith(fields.title, <<".">>)
     /\ ~StartsUpper(fields.title) /\ ~StartsNonImperative(fields.title))
    => validation.valid

\* C6: format fails with UnknownType exactly for the types that are no
\* registered identifier, and returns a message for every registered one
C6_UnknownTypeFails ==
  (cpc # "fields" /\ fields # NoFields)
    => (formatted.threw <=> fields.type \notin DOMAIN registry)

\* C7: the first line of format(fields) is '<emoji> <type>[(<scope>)][!]: <title>'
\* with the registry emoji of the type, the scope segment iff scope is
\* non-empty, and '!' iff breaking, after the scope and right before the colon
C7_FirstLine ==
  (Formatted /\ fields.type \in DOMAIN registry /\ NoLineBreak(fields.title)
     /\ (fields.scope = Undefined \/ NoLineBreak(fields.scope)))
    => Split(message, "\n")[1] =
         registry[fields.type].emoji \o <<" ">> \o fields.type
           \o (IF fields.scope # Undefined /\ fields.scope # <<>>
               THEN <<"(">> \o fields.scope \o <<")">> ELSE <<>>)
           \o (IF fields.breaking THEN <<"!">> ELSE <<>>)
           \o <<":", " ">> \o fields.title

\* C7 witness: a message formatted with both a scope and the breaking marker
C7_Witness ==
  /\ Formatted
  /\ fields.type = <<"f", "e", "a", "t">>
  /\ fields.scope = <<"a", "u", "t", "h">>
  /\ fields.breaking
  /\ StartsWith(message, registry[fields.type].emoji \o <<" ">> \o <<"f", "e", "a", "t", "(", "a", "u", "t", "h", ")", "!", ":", " ">>)

\* C8: the outcome of validate is valid iff its list of issues is empty,
\* whatever warnings it carries
C8_ValidIffNoIssues ==
  cpc \in {"validated", "parsed"} => (validation.valid <=> validation.issues = <<>>)

\* C8 witness: a message validated as valid although it carries warnings
C8_Witness ==
  /\ cpc = "validated"
  /\ validation.valid
  /\ validation.warnings # Undefined
  /\ Len(validation.warnings) >= 2

\* C12: every type the classifier emits is a key of the registry and comes
\* with the registry emoji of that type; every message format returns
\* begins with the registry emoji and the identifier of a registered type
C12_EmittedTypesRegistered ==
  /\ (spc = "done" /\ ~suggestion.threw) =>
       /\ suggestion.value.type \in DOMAIN registry
       /\ suggestion.value.emoji = registry[suggestion.value.type].emoji
  /\ (cpc # "fields" /\ fields # NoFields /\ ~formatted.threw) =>
       /\ fields.type \in DOMAIN registry
       /\ StartsWith(formatted.value,
                     registry[fields.type].emoji \o <<" ">> \o fields.type)

Contains(s, sub) ==
  \E i \in 1..(Len(s) - Len(sub) + 1) : SubSeq(s, i, i + Len(sub) - 1) = sub

HasDescription(f) == f.description # Undefined /\ f.description # <<>>

\* C16: format appends a blank line and the description verbatim iff the
\* description is present and non-empty, and then a blank line and
\* 'BREAKING CHANGE: ' iff breaking is true, the description is non-empty
\* and does not contain 'BREAKING CHANGE:'; breaking without a description
\* gives the first line only
C16_DescriptionAppended ==
  Formatted =>
    message =
      FirstLine(fields)
        \o (IF HasDescription(fields) THEN <<"\n", "\n">> \o fields.description ELSE <<>>)
        \o (IF fields.breaking /\ HasDescription(fields)
                 /\ ~Contains(fields.description, <<"B", "R", "E", "A", "K", "I", "N", "G", " ", "C", "H", "A", "N", "G", "E", ":">>)
            THEN <<"\n", "\n">> \o <<"B", "R", "E", "A", "K", "I", "N", "G", " ", "C", "H", "A", "N", "G", "E", ":", " ">> ELSE <<>>)

\* C16 witness: a breaking change whose description lacks the marker got
\* the marker appended after the description
C16_Witness ==
  /\ Formatted
  /\ fields.breaking
  /\ fields.description = <<"I", "m", "p", "l", "e", "m", "e", "n", "t", "e", "d", " ", "O", "A", "u", "t", "h", "2", " ", "f", "l", "o", "w", ".">>
  /\ EndsWith(message, fields.description \o <<"\n", "\n">> \o <<"B", "R", "E", "A", "K", "I", "N", "G", " ", "C", "H", "A", "N", "G", "E", ":", " ">>)

Validated == cpc \in {"validated", "parsed"}

FirstLineOf(msg) == Split(msg, "\n")[1]

WhitespaceOnly(msg) == \A i \in DOMAIN msg : IsSpace(msg[i])

\* the line starts with a token of non-whitespace that whitespace follows
HasLeadingToken(line) ==
  /\ line # <<>>
  /\ ~IsSpace(line[1])
  /\ \E i \in DOMAIN line : IsSpace(line[i])

\* the header found in a first line that starts with a token: what follows
\* the token and one separating character, matched against the pattern
HeaderOf(line) ==
  TypeRegex(SubstringFrom(line, Len(EmojiRegex(line).emoji) + 1))

OnlyIssue(text) ==
  /\ ~validation.valid
  /\ validation.issues = <<Text(text)>>
  /\ validation.warnings = Undefined \/ validation.warnings = <<>>

StructuralIssues ==
  {Text("Commit message cannot be empty"),
   Text("Commit message must start with an emoji"),
   Text("Invalid commit format. Expected: <emoji> <type>(<scope>): <title>")}

\* C17: validate stops at the first of its three structural checks that
\* fails: an empty or whitespace-only message gives exactly 'Commit message
\* cannot be empty'; else a first line without a leading token followed by
\* whitespace gives exactly 'Commit message must start with an emoji'; else
\* a remainder that is no header gives exactly 'Invalid commit format...';
\* each time valid is false and there is no other issue and no warning
C17_ShortCircuit ==
  Validated =>
    IF WhitespaceOnly(message)
    THEN OnlyIssue("Commit message cannot be empty")
    ELSE IF ~HasLeadingToken(FirstLineOf(message))
    THEN OnlyIssue("Commit message must start with an emoji")
    ELSE IF ~HeaderOf(FirstLineOf(message)).matched
    THEN OnlyIssue("Invalid commit format. Expected: <emoji> <type>(<scope>): <title>")
    ELSE \A i \in DOMAIN validation.issues : validation.issues[i] \notin StructuralIssues

\* C17 witness: a message of blanks only was rejected as empty
C17_Witness ==
  /\ Validated
  /\ message # <<>>
  /\ WhitespaceOnly(message)
  /\ OnlyIssue("Commit message cannot be empty")

StructurallyValid ==
  /\ Validated
  /\ ~WhitespaceOnly(message)
  /\ HasLeadingToken(FirstLineOf(message))
  /\ HeaderOf(FirstLineOf(message)).matched

HasIssue(text) == \E i \in DOMAIN validation.issues : validation.issues[i] = text

InvalidTypeIssue(type) == Text("Invalid commit type: ") \o type

MismatchIssue(emoji, type) ==
  Text("Emoji ") \o emoji \o Text(" doesn't match type ") \o type
    \o Text(". Expected ") \o registry[type].emoji

\* C18: for a message that passes the emoji and header patterns, validate
\* reports 'Invalid commit type: <type>' iff the type is not registered,
\* otherwise the emoji mismatch iff the emoji is not the registry emoji of
\* the type; the message is valid iff the type is registered and the emoji
\* is the one of the type
C18_TypeAndEmoji ==
  StructurallyValid =>
    LET type == HeaderOf(FirstLineOf(message)).type
        emoji == EmojiRegex(FirstLineOf(message)).emoji
    IN /\ HasIssue(InvalidTypeIssue(type)) <=> type \notin DOMAIN registry
       /\ type \in DOMAIN registry =>
            /\ HasIssue(MismatchIssue(emoji, type)) <=> emoji # registry[type].emoji
            /\ validation.valid <=> emoji = registry[type].emoji
       /\ type \notin DOMAIN registry => ~validation.valid
       /\ Len(validation.issues) <= 1

WarningsOf(v) == IF v.warnings = Undefined THEN <<>> ELSE v.warnings

HasWarning(text) ==
  \E i \in DOMAIN WarningsOf(validation) : WarningsOf(validation)[i] = text

ImperativeWarnings ==
  {i \in DOMAIN WarningsOf(validation) :
     StartsWith(WarningsOf(validation)[i], Text("Use imperative mood: \""))}

\* the prefix with a trailing ed, es or s taken off
Stripped(prefix) ==
  IF EndsWith(prefix, <<"e", "d">>) THEN SubSeq(prefix, 1, Len(prefix) - 2)
  ELSE IF EndsWith(prefix, <<"e", "s">>) THEN SubSeq(prefix, 1, Len(prefix) - 2)
  ELSE IF EndsWith(prefix, <<"s">>) THEN SubSeq(prefix, 1, Len(prefix) - 1)
  ELSE prefix

MatchedPrefixes(title) ==
  {i \in DOMAIN nonImperativePrefixes : StartsWith(LowerStr(title), nonImperativePrefixes[i])}

\* C19: for a structurally valid message each of the four title conditions
\* (longer than 50; uppercase first letter; final '.'; a non-imperative
\* prefix) adds its own warning, whatever the others do; there is at most
\* one imperative-mood warning, for the first prefix that matches, and it
\* suggests that prefix without its trailing ed, es or s
C19_TitleWarnings ==
  StructurallyValid =>
    LET title == HeaderOf(FirstLineOf(message)).title
        hits == MatchedPrefixes(title)
    IN /\ HasWarning(Text("Title is ") \o Text(ToString(Len(title)))
                       \o Text(" characters (recommended max: 50)"))
            <=> Len(title) > 50
       /\ HasWarning(Text("Title should start with lowercase letter")) <=> StartsUpper(title)
       /\ HasWarning(Text("Title should not end with a period")) <=> EndsWith(title, <<".">>)
       /\ Cardinality(ImperativeWarnings) = (IF hits = {} THEN 0 ELSE 1)
       /\ \A i \in hits :
            (\A h \in hits : i <= h) =>
              HasWarning(Text("Use imperative mood: \"") \o nonImperativePrefixes[i]
                           \o Text("\" should be \"") \o Stripped(nonImperativePrefixes[i])
                           \o Text("\""))

\* C19 witness: the title 'Added login.' of a formatted message is valid
\* and carries the lowercase, the period and the imperative-mood warning
C19_Witness ==
  /\ StructurallyValid
  /\ fields # NoFields
  /\ fields.title = <<"A", "d", "d", "e", "d", " ", "l", "o", "g", "i", "n", ".">>
  /\ validation.valid
  /\ Len(WarningsOf(validation)) = 3
  /\ HasWarning(Text("Title should start with lowercase letter"))
  /\ HasWarning(Text("Use imperative mood: \"") \o <<"a", "d", "d", "e", "d">> \o Text("\" should be \"")
                  \o <<"a", "d", "d">> \o Text("\""))

\* C20: the warnings of validate's outcome are absent or a non-empty list,
\* on every return path
C20_WarningsAbsentOrNonEmpty ==
  Validated => (validation.warnings = Undefined \/ Len(validation.warnings) > 0)

Parsed == cpc = "parsed"

\* the first line without its leading token and all the whitespace after it
AfterEmoji(line) == SubstringFrom(line, EmojiRegex(line).whole)

\* the header that the parsed fields spell: type, (scope), ! and the colon
HeaderText(pm) ==
  pm.type
    \o (IF pm.scope # Undefined THEN <<"(">> \o pm.scope \o <<")">> ELSE <<>>)
    \o (IF pm.breaking THEN <<"!">> ELSE <<>>)
    \o <<":">>

\* rest is the header of pm, then whitespace, then the title of pm
Decomposes(rest, pm) ==
  /\ StartsWith(rest, HeaderText(pm))
  /\ EndsWith(rest, pm.title)
  /\ Len(rest) > Len(HeaderText(pm)) + Len(pm.title)
  /\ \A i \in (Len(HeaderText(pm)) + 1)..(Len(rest) - Len(pm.title)) : IsSpace(rest[i])

LinesOf(msg) == Split(msg, "\n")

\* C21: parse succeeds exactly when the first line matches both patterns,
\* whatever the registry says of the type and the emoji; then scope is the
\* parenthesized group without its parentheses or absent, breaking is true
\* iff the '!' was there, and description is the lines from index 2 on,
\* joined by newline and trimmed, absent iff there are fewer than 3 lines
C21_ParseDecomposes ==
  Parsed =>
    /\ ~parsed.isNull <=>
         (HasLeadingToken(FirstLineOf(message))
            /\ TypeRegex(AfterEmoji(FirstLineOf(message))).matched)
    /\ ~parsed.isNull =>
         /\ Decomposes(AfterEmoji(FirstLineOf(message)), parsed)
         /\ parsed.type # <<>> /\ \A i \in DOMAIN parsed.type : IsLowerAZ(parsed.type[i])
         /\ parsed.scope # Undefined => (parsed.scope # <<>> /\ ")" \notin Range(parsed.scope))
         /\ parsed.title # <<>>
         /\ parsed.description =
              (IF Len(LinesOf(message)) < 3 THEN Undefined
               ELSE Trim(Join(SubSeq(LinesOf(message), 3, Len(LinesOf(message))), <<"\n">>)))

\* C21 witness: a message with a wrong emoji, an unregistered type, a
\* scope, the '!' and a second line that is not blank was parsed
C21_Witness ==
  /\ Parsed
  /\ ~parsed.isNull
  /\ parsed.type = <<"b", "o", "g", "u", "s">>
  /\ parsed.scope = <<"a">>
  /\ parsed.breaking
  /\ StartsWith(message, <<"x", " ">>)
  /\ Len(LinesOf(message)) = 2
  /\ parsed.description = Undefined

EmojiIssue == Text("Commit message must start with an emoji")

FormatIssue == Text("Invalid commit format. Expected: <emoji> <type>(<scope>): <title>")

\* C22: for every message that is not blank, parse returns none iff
\* validate reports the missing-emoji or the invalid-format issue, and when
\* both succeed they take the same type, scope, breaking marker and title
\* from the first line
C22_ParseValidateAgree ==
  (Parsed /\ ~WhitespaceOnly(message)) =>
    /\ parsed.isNull <=> (HasIssue(EmojiIssue) \/ HasIssue(FormatIssue))
    /\ (~parsed.isNull /\ ~HasIssue(EmojiIssue) /\ ~HasIssue(FormatIssue)) =>
         /\ parsed.type = HeaderOf(FirstLineOf(message)).type
         /\ parsed.title = HeaderOf(FirstLineOf(message)).title
         /\ parsed.breaking = (HeaderOf(FirstLineOf(message)).breaking = <<"!">>)
         /\ (parsed.scope = Undefined) = (HeaderOf(FirstLineOf(message)).scope = Undefined)
         /\ parsed.scope # Undefined =>
              HeaderOf(FirstLineOf(message)).scope = <<"(">> \o parsed.scope \o <<")">>

\* C23: validate returns at most one issue for every message, and never
\* the issue 'Title cannot be empty'
C23_AtMostOneIssue ==
  Validated =>
    /\ Len(validation.issues) <= 1
    /\ ~HasIssue(Text("Title cannot be empty"))

\* C23 witness: a header whose title is a single character was validated
\* and has exactly the issue of its unregistered type
C23_Witness ==
  /\ StructurallyValid
  /\ HeaderOf(FirstLineOf(message)).title = <<"a">>
  /\ validation.issues = <<Text("Invalid commit type: ") \o <<"b", "o", "g", "u", "s">>>>

(***************************************************************************)
(* Properties of wrapText, checked under SpecWrap                          *)
(***************************************************************************)

\* the words of a text that are not empty, in order
NonEmptyWords(text) == SelectSeq(Split(text, " "), LAMBDA w : w # <<>>)

RECURSIVE Flatten(_)
Flatten(ss) == IF ss = <<>> THEN <<>> ELSE Head(ss) \o Flatten(Tail(ss))

WrappedLines == IF wout = <<>> THEN <<>> ELSE Split(wout, "\n")

\* C9: every line of wrap(text, w) is at most w long, unless it is a single
\* word of the text that is itself longer than w, alone on its line; no word
\* is split: the lines hold the words of the text, whole and in order
C9_WrapWidth ==
  wpc = "done" =>
    /\ \A i \in DOMAIN WrappedLines :
         \/ Len(WrappedLines[i]) <= wwidth
         \/ /\ " " \notin Range(WrappedLines[i])
            /\ \E k \in DOMAIN Split(wtext, " ") : Split(wtext, " ")[k] = WrappedLines[i]
    /\ Flatten([i \in DOMAIN WrappedLines |-> NonEmptyWords(WrappedLines[i])])
         = NonEmptyWords(wtext)

\* C9 witness: a word longer than the width sits alone on its line, after a
\* line of two words that fills the width
C9_Witness ==
  /\ wpc = "done"
  /\ Len(WrappedLines) >= 2
  /\ Len(WrappedLines[2]) > wwidth
  /\ Len(WrappedLines[1]) = wwidth
  /\ " " \in Range(WrappedLines[1])

(***************************************************************************)
(* Properties of suggestCommitType, checked under SpecClassify             *)
(***************************************************************************)

Confidences == {"high", "medium", "low"}

\* C10: classify fails with 'No staged changes found' when stats.files is
\* empty, whatever the counts, and returns a suggestion (a type, its emoji, a
\* reason, a confidence) without failing when there is at least one file
C10_NoStagedChanges ==
  spc = "done" =>
    IF Len(stats.files) = 0
    THEN suggestion.threw /\ suggestion.error = Text("No staged changes found")
    ELSE /\ ~suggestion.threw
         /\ suggestion.value.type \in CommitType
         /\ suggestion.value.confidence \in Confidences
         /\ suggestion.value.reason # <<>>

\* C10 witness: the call failed on an empty file list with non-zero counts
C10_Witness ==
  /\ spc = "done"
  /\ stats.files = <<>>
  /\ stats.additions > 0
  /\ stats.deletions > 0
  /\ suggestion.threw

\* the lists that hold the files of fs, each once, in any order
Reorderings(fs) ==
  {gs \in [DOMAIN fs -> Range(fs)] : \A i \in DOMAIN fs : \E j \in DOMAIN gs : gs[j] = fs[i]}

\* C11: classify is invariant to the order of stats.files: for the same
\* additions and deletions and any permutation of the files it returns the
\* same type, emoji, reason and confidence
C11_OrderInvariant ==
  spc = "done" =>
    \A gs \in Reorderings(stats.files) :
      suggestCommitType([stats EXCEPT !.files = gs]) = suggestion

\* C11 witness: two files of different categories were classified, and the
\* list in the other order is another input
C11_Witness ==
  /\ spc = "done"
  /\ Len(stats.files) = 2
  /\ IsDocFile(stats.files[1])
  /\ ~IsDocFile(stats.files[2])
  /\ IsBuildFile(stats.files[2])
  /\ Cardinality(Reorderings(stats.files)) = 2
  /\ ~suggestion.threw

Every(files, P(_)) == \A i \in DOMAIN files : P(files[i])

HighConfidence(type) ==
  /\ ~suggestion.threw
  /\ suggestion.value.type = type
  /\ suggestion.value.confidence = "high"

\* C13: the category rules are applied in a fixed order and the first that
\* matches wins: all files documentation -> docs; else all tests -> test;
\* else all CI yaml -> ci; else some file a known manifest -> deps or build;
\* else all config -> chore; else the volume rule decides. The five
\* category rules give confidence high
C13_RuleOrder ==
  (spc = "done" /\ Len(stats.files) > 0) =>
    IF Every(stats.files, IsDocFile) THEN HighConfidence(<<"d", "o", "c", "s">>)
    ELSE IF Every(stats.files, IsTestFile) THEN HighConfidence(<<"t", "e", "s", "t">>)
    ELSE IF Every(stats.files, IsCiFile) THEN HighConfidence(<<"c", "i">>)
    ELSE IF \E i \in DOMAIN stats.files : IsBuildFile(stats.files[i])
    THEN HighConfidence(<<"d", "e", "p", "s">>) \/ HighConfidence(<<"b", "u", "i", "l", "d">>)
    ELSE IF Every(stats.files, IsConfigFile) THEN HighConfidence(<<"c", "h", "o", "r", "e">>)
    ELSE /\ ~suggestion.threw
         /\ suggestion.value.confidence \in {"medium", "low"}
         /\ suggestion.value.type \in {<<"f", "e", "a", "t">>, <<"r", "e", "f", "a", "c", "t", "o", "r">>, <<"f", "i", "x">>}

\* C13 witness: a file that is documentation, a manifest and nothing else
\* (requirements.txt) was classified as docs
C13_Witness ==
  /\ spc = "done"
  /\ stats.files = <<<<"r", "e", "q", "u", "i", "r", "e", "m", "e", "n", "t", "s", ".", "t", "x", "t">>>>
  /\ IsDocFile(stats.files[1])
  /\ IsBuildFile(stats.files[1])
  /\ HighConfidence(<<"d", "o", "c", "s">>)

NoCategory(files) ==
  /\ Len(files) > 0
  /\ ~Every(files, IsDocFile)
  /\ ~Every(files, IsTestFile)
  /\ ~Every(files, IsCiFile)
  /\ ~\E i \in DOMAIN files : IsBuildFile(files[i])
  /\ ~Every(files, IsConfigFile)

\* ratio > 2, for ratio = a / d if d > 0, else 10 if a > 0, else 0
RatioAboveTwo(a, d) == IF d > 0 THEN a > 2 * d ELSE a > 0

\* 0.7 < ratio < 1.3: neither 10 nor 0 lies between
RatioBalanced(a, d) == d > 0 /\ 10 * a > 7 * d /\ 10 * a < 13 * d

Mentions(reason, n) == \E i \in DOMAIN reason : reason[i] = ToString(n)

Suggested(type, confidence) ==
  /\ ~suggestion.threw
  /\ suggestion.value.type = type
  /\ suggestion.value.emoji = registry[type].emoji
  /\ suggestion.value.confidence = confidence

CommitOrder == <<"hasStagedChanges", "formatCommitMessage", "validateCommitMessage", "createCommit">>

IsPrefix(s, t) == Len(s) <= Len(t) /\ SubSeq(t, 1, Len(s)) = s

CommitCalls == {p \in Invocations : inv[p].name = "git_commit"}

\* C3: in git_commit the steps run in the order staged-check, format,
\* validate, commit; the commit operation is invoked at most once, and only
\* after the staged-check said yes and the formatted message validated as
\* valid; without staged changes the call fails with 'No staged changes
\* found', with an invalid message it fails with 'Invalid commit message'
\* and the issues, the commit operation not invoked in either case; a
\* success carries the commit identifier and the warnings
C3_CommitOrder ==
  \A p \in CommitCalls :
    LET call == inv[p] IN
    /\ IsPrefix(call.steps, CommitOrder)
    /\ call.commitCalls <= 1
    /\ call.commitCalls = 1 <=> Len(call.steps) = 4
    /\ call.commitCalls = 1 =>
         /\ call.hasChanges = "yes"
         /\ call.message = formatCommitMessage(ParamsOf(call.args)).value
         /\ call.validation.valid
    /\ (call.pc = "done" /\ call.hasChanges = "no") =>
         /\ call.response.isError
         /\ call.response.text =
              Text("Error: ") \o Text("No staged changes found. Please stage your changes first with git add.")
         /\ call.commitCalls = 0
    /\ (call.pc = "done" /\ call.validation # NoValidation /\ ~call.validation.valid) =>
         /\ call.response.isError
         /\ call.response.text =
              Text("Error: ") \o Text("Invalid commit message:\n")
                \o Join(call.validation.issues, <<"\n">>)
         /\ call.commitCalls = 0
    /\ (call.pc = "done" /\ ~call.response.isError) =>
         /\ call.commitCalls = 1
         /\ call.commitHash # Undefined
         /\ call.response.text =
              Text("Commit created successfully!\n\nCommit hash: ") \o call.commitHash
                \o Text("\n\nMessage:\n") \o call.message
                \o (IF call.validation.warnings = Undefined THEN <<>>
                    ELSE Text("\n\nWarnings:\n") \o Numbered(call.validation.warnings, 1))

\* C3 witness: a git_commit call that went through the four steps and
\* answers with the identifier of the commit it created and with warnings
C3_Witness ==
  \E p \in CommitCalls :
    /\ inv[p].pc = "done"
    /\ ~inv[p].response.isError
    /\ inv[p].steps = CommitOrder
    /\ inv[p].commitHash = Text("commit-") \o Text("1")
    /\ HasWarnings(inv[p].validation)
    /\ repo.commits = 1

\* C4: every failure raised while a tool call is handled (missing arguments,
\* unknown type, invalid message, failure of git, unknown tool name) ends in
\* a response with the error flag set and the text 'Error: ' and the
\* message of the failure; no call ends in a raw fault
C4_FailuresCaught ==
  \A p \in Invocations :
    /\ ~inv[p].response.fault
    /\ inv[p].thrown # Undefined =>
         /\ inv[p].pc = "done"
         /\ inv[p].response.isError
         /\ inv[p].response.text = Text("Error: ") \o inv[p].thrown
    /\ inv[p].pc = "done" => (inv[p].response.isError <=> inv[p].thrown # Undefined)

\* C4 witness: a call of an unknown tool name was answered with the error
\* payload while a git_commit call failed on git
C4_Witness ==
  /\ \E p \in Invocations :
       /\ inv[p].name \in UnknownToolNames
       /\ inv[p].response.isError
       /\ StartsWith(inv[p].response.text, Text("Error: ") \o Text("Unknown tool: "))
  /\ \E p \in CommitCalls :
       /\ inv[p].thrown = Text("Failed to create commit: ") \o GitFailure
       /\ inv[p].response.isError

EntryComplete(info) == info.emoji # <<>> /\ info.title # "" /\ info.description # ""

Unchanged(response, r) == [response |-> response, repo |-> r]

AloneFormat(args) ==
  IF ~args.present THEN Caught(TypeErrorUndefined("type"))
  ELSE IF formatCommitMessage(ParamsOf(args)).threw
  THEN Caught(formatCommitMessage(ParamsOf(args)).error)
  ELSE Result(Text("Formatted commit message:\n\n") \o formatCommitMessage(ParamsOf(args)).value)

AloneValidate(args, v) ==
  IF ~args.present THEN Caught(TypeErrorUndefined("message"))
  ELSE IF ~Truthy(args.message) THEN Caught(Text("Message is required"))
  ELSE Result((IF v.valid
               THEN Text("Commit message is valid!\n")
               ELSE Text("Commit message has issues:\n\n") \o Numbered(v.issues, 1))
                \o WarningsText(v, "\nWarnings:\n"))

AloneSuggest(r) ==
  {Unchanged(Caught(Text("Failed to get staged diff: ") \o GitFailure), r),
   Unchanged(
     IF suggestCommitType(r.staged).threw
     THEN Caught(suggestCommitType(r.staged).error)
     ELSE Result(Text("Suggested commit type: ") \o suggestCommitType(r.staged).value.emoji
                   \o <<" ">> \o suggestCommitType(r.staged).value.type
                   \o Text("\n\nConfidence: ")
                   \o Text(suggestCommitType(r.staged).value.confidence)
                   \o Text("\nReason: ") \o suggestCommitType(r.staged).value.reason
                   \o Text("\n\nType description: ")
                   \o Text(registry[suggestCommitType(r.staged).value.type].description)),
     r)}

\* the call of handleCommit that found staged changes: it fails before the
\* commit, or git commit fails, or the commit is created
AloneCommitStaged(prepared, r) ==
  IF prepared.pc = "done" THEN {Unchanged(prepared.response, r)}
  ELSE {Unchanged(Caught(Text("Failed to create commit: ") \o GitFailure), r),
        [response |->
           Result(CommitText(prepared, Text("commit-") \o Text(ToString(r.commits + 1)))),
         repo |-> [staged |-> NoStats, commits |-> r.commits + 1]]}

AloneCommit(args, r) ==
  {Unchanged(Caught(Text("Failed to check git status: ") \o GitFailure), r)}
    \union
  (IF Len(r.staged.files) = 0
   THEN {Unchanged(Caught(Text("No staged changes found. Please stage your changes first with git add.")), r)}
   ELSE AloneCommitStaged(
          PrepareCommit(Called("git_commit", args),
                        formatCommitMessage(ParamsOf(args)),
                        validateCommitMessage(formatCommitMessage(ParamsOf(args)).value)),
          r))

Alone(call, r) ==
  IF call.name = "git_format_message" THEN {Unchanged(AloneFormat(call.args), r)}
  ELSE IF call.name = "git_validate_message"
  THEN {Unchanged(AloneValidate(call.args, validateCommitMessage(call.args.message)), r)}
  ELSE IF call.name = "git_suggest_type" THEN AloneSuggest(r)
  ELSE IF call.name = "git_commit" THEN AloneCommit(call.args, r)
  ELSE {Unchanged(Caught(Text("Unknown tool: ") \o Text(call.name)), r)}

\* the calls of the slots in order, one after the other from the repository
\* r: the sequences of responses they can end with
RECURSIVE SequentialRuns(_, _)
SequentialRuns(order, r) ==
  IF order = <<>> THEN {<<>>}
  ELSE UNION {{<<o.response>> \o rest : rest \in SequentialRuns(Tail(order), o.repo)} :
                o \in Alone(inv[Head(order)], r)}

Orders == {o \in [1..Cardinality(Invocations) -> Invocations] :
             \A p \in Invocations : \E i \in DOMAIN o : o[i] = p}

AllDone == \A p \in Invocations : inv[p].pc = "done"

\* C15: calls need no coordination: whatever the interleaving of the steps
\* of concurrent calls, two git_commit calls on one repository included,
\* each call returns a response that it returns in some execution of the
\* calls one after the other
C15_SequentialOutcomes ==
  AllDone =>
    \A p \in Invocations :
      \E o \in Orders :
        \E run \in SequentialRuns(o, StartRepo) :
          \E i \in DOMAIN o : o[i] = p /\ run[i] = inv[p].response

====
